---- MODULE Spec2Model ----
(***************************************************************************)
(* Knight's tour solvers: the genetic decoder, operators, population and   *)
(* main loop of knights_tour_console.py and the MRV/LCV backtracking       *)
(* search of knights_tour_csp.py.                                          *)
(*                                                                         *)
(* A square is a pair <<x, y>>.                                            *)
(* random.random() is modelled in hundredths: a draw r stands for r/100    *)
(* and a mutation rate m for m/100.  Sequences are 1-based: gene i of the  *)
(* model is genes[i-1] of the source, and a crossover point p cuts after   *)
(* the first p genes in both.                                              *)
(***************************************************************************)
EXTENDS Integers, Sequences, FiniteSets, TLC

\* ------------------------------------------------------------ constants
\* The board is 8 x 8 (the literal 8 of is_valid_position and get_neighbors).
BOARD == 8

\* len(assignment) == 64 ends the backtracking search.
FULL == 64

\* Chromosome.__init__ draws 63 genes.
GenomeLen == 63

\* Chromosome.mutation's default mutation_rate, 0.1, in hundredths.
DefaultMutationRate == 10

\* Population.tournament_selection's default size.
DefaultTournamentSize == 3

\* ------------------------------------------------------------ bounds
\* Number of leading genes of an input genome drawn freely from 1..8; the
\* remaining genes of the 63 repeat one direction.
FreeGenes == 2

\* Number of check_moves calls made on one knight.
MaxDecodes == 2

\* The backtracking search is started from assignments that leave at most
\* this many squares free.
MaxFree == 14

\* The draws of one mutation call repeat with this period along the genome.
TapePeriod == 2

\* Largest population_size.
MaxPop == 3

\* create_new_generation is called while generation is at most this.
MaxGenerations == 1

\* ------------------------------------------------------------ helpers
Range(s) == { s[n] : n \in 1..Len(s) }

\* Python's None, for a variable that otherwise holds a value v, kept as << v >>.
None == << >>

START == << 0, 0 >>

Directions == 1..8

\* Knight.MOVES (and the list MOVES of knights_tour_csp.py, in the same order).
MOVES ==
    << << 2, 1 >>, << 1, 2 >>, << 1, -2 >>, << 2, -1 >>,
       << -2, -1 >>, << -1, -2 >>, << -1, 2 >>, << -2, 1 >> >>

\* A genome of 63 genes: the genes of pre, then t repeated.
GenomeOf(pre, t) ==
    [ n \in 1..GenomeLen |-> IF n <= Len(pre) THEN pre[n] ELSE t ]

\* ------------------------------------------------------------ state
VARIABLES
    \* one Knight
    knight,         \* the Knight object: genes, position, path, fitness, visited
    cycle_forward,  \* check_moves' local
    i,              \* check_moves' loop index, 1-based
    halted,         \* whether check_moves left its loop by break
    kpc,            \* where the knight's caller stands
    decodes,        \* per check_moves and evaluate_fitness: the bit, the fitness
    given,          \* the genes the knight had when check_moves was last entered
    \* the backtracking solver
    assignment,     \* the list backtracking works on, shared by every call
    frames,         \* the active calls: the successors still to try, and the
                    \* assignment at entry
    result,         \* what the call that just returned gave: "None", or
                    \* "assignment" (the list itself)
    bpc,            \* "call", "loop", "return", "main" or "done"
    solution,       \* main's solution
    artifact,       \* the content of knight_solution.json, None while unwritten
    printed,        \* what main printed after the search
    start,          \* the assignment the search was started on
    \* two Chromosomes and the operators applied to them
    self_genes,     \* the genes of the chromosome the operator is called on
    partner_genes,  \* the genes of the partner chromosome
    op,             \* the last operator call: its inputs, draws and results
    \* a Population and the loop around it
    population_size,
    generation,
    knights,        \* the list of Knight objects
    old_knights,    \* the generation create_new_generation last replaced
    new_knights,    \* create_new_generation's local
    max_fitness,    \* evaluate's results, as main holds them
    best_knight,    \* (an index into the evaluated generation, 0 for None)
    gpc,            \* where the loop around the population stands
    selection,      \* tournament_selection under way: the sample of its last
                    \* tournament and the parents chosen so far, else None
    \* one call of count_onward_moves and get_neighbors
    query,          \* the arguments x, y, visited
    answer,         \* None, then what the two functions returned
    \* main of knights_tour_console.py
    best_fitness_ever,
    best_solution_ever,   \* None, or the generation and the place in it of the
                          \* Knight object main refers to
    generations_without_improvement,
    generation_count,
    mpc,            \* where main stands
    ran,            \* the Population methods called on the current generation
    returned,       \* the max fitness of every evaluate call so far
    kept,           \* the Knight object best_solution_ever refers to, once its
                    \* generation is replaced; None before
    \* Chromosome objects and the list objects they refer to
    lists,          \* the list objects: the content of each, by address
    chromosomes,    \* the Chromosome objects: the address self.genes holds
    calls,          \* the calls made on them so far
    writes,         \* how many of the calls write into a list
    \* a Knight moved forward and backward by hand
    committed,      \* None, or the Knight as it was before the move last
                    \* committed, kept until a second move_backward follows
    moves           \* how many moves and move_backward calls were made

kvars == << knight, cycle_forward, i, halted, kpc, decodes, given >>

bvars == << assignment, frames, result, bpc, solution, artifact, printed, start >>

ovars == << self_genes, partner_genes, op >>

gvars == << population_size, generation, knights, old_knights, new_knights,
            max_fitness, best_knight, gpc, selection >>

cvars == << query, answer >>

mvars == << best_fitness_ever, best_solution_ever,
            generations_without_improvement, generation_count, mpc, ran,
            returned, kept >>

hvars == << lists, chromosomes, calls, writes >>

uvars == << committed, moves >>

vars == << kvars, bvars, ovars, gvars, cvars, mvars, hvars, uvars >>

\* ============================================================ Knight
\* Knight.move_forward: the square reached from position by a direction; it
\* does not look at the board.
move_forward(position, direction) ==
    << position[1] + MOVES[direction][1], position[2] + MOVES[direction][2] >>

\* is_valid_position with the visited test dropped.
is_valid_position_NoVisited(pos, visited) ==
    0 <= pos[1] /\ pos[1] < BOARD /\ 0 <= pos[2] /\ pos[2] < BOARD

\* Knight.is_valid_position
is_valid_position(pos, visited) ==
    /\ 0 <= pos[1] /\ pos[1] < BOARD
    /\ 0 <= pos[2] /\ pos[2] < BOARD
    /\ pos \notin visited

\* Knight.__init__ with a chromosome given.
NewKnight(genes) ==
    [ genes    |-> genes,
      position |-> START,
      path     |-> << START >>,
      fitness  |-> 0,
      visited  |-> { START } ]

\* The probe without the shift to 0-based residues: it starts two
\* directions away and ends on the original direction.
test_move_NoShift(original_move, j, forward) ==
    IF forward
    THEN ((original_move + j) % 8) + 1
    ELSE ((original_move - j) % 8) + 1

\* The direction probed at round j of the repair loop.
test_move(original_move, j, forward) ==
    IF forward  \* cycle_forward
    THEN ((original_move + j - 1) % 8) + 1
    ELSE ((original_move - j - 1) % 8) + 1

\* The commit of a move: position, path and visited advance together.
Commit(k, pos) ==
    [ k EXCEPT !.position = pos,
               !.path = Append(@, pos),
               !.visited = @ \cup { pos } ]

\* A repair loop of five rounds (range(1, 6)).
ValidRounds_Five(k, original_move, forward) ==
    { j \in 1..5 :
        is_valid_position(
            move_forward(k.position, test_move(original_move, j, forward)),
            k.visited) }

\* The rounds j of the repair loop whose probed square is valid.
ValidRounds(k, original_move, forward) ==
    { j \in 1..7 :
        is_valid_position(
            move_forward(k.position, test_move(original_move, j, forward)),
            k.visited) }

\* The repair writing the round number into the genome instead of the
\* direction it probed.
RepairGene_Round(k, at, j, forward) ==
    [ k EXCEPT !.genes[at] = j ]

\* A repair that moves the knight but leaves the gene as it was.
RepairGene_Keep(k, at, j, forward) == k

\* The repair is persisted: genes[i] = test_move.
RepairGene(k, at, j, forward) ==
    [ k EXCEPT !.genes[at] = test_move(k.genes[at], j, forward) ]

\* The iteration of the variant that undoes one move when it is blocked: the
\* position the blocked move started from is taken off the path.
CheckMovesGene_Undo(k, at, forward) ==
    LET move    == k.genes[at]
        new_pos == move_forward(k.position, move)
        rounds  == ValidRounds(k, move, forward)
    IN  IF is_valid_position(new_pos, k.visited)
        THEN [ knight |-> Commit(k, new_pos), halted |-> FALSE ]
        ELSE IF rounds = {}
             THEN [ knight |->
                        IF Len(k.path) > 1
                        THEN [ k EXCEPT
                                 !.path = SubSeq(@, 1, Len(@) - 1),
                                 !.position = k.path[Len(k.path) - 1],
                                 !.visited = @ \ { k.position } ]
                        ELSE k,
                    halted |-> TRUE ]
             ELSE LET j == CHOOSE r \in rounds : \A q \in rounds : r <= q
                      test_pos ==
                          move_forward(k.position, test_move(move, j, forward))
                  IN  [ knight |-> Commit(RepairGene(k, at, j, forward), test_pos),
                        halted |-> FALSE ]

\* One iteration of check_moves' loop, on gene at (1-based).  The result
\* holds the knight after the iteration and whether the loop was left by
\* break.
CheckMovesGene(k, at, forward) ==
    LET move    == k.genes[at]
        new_pos == move_forward(k.position, move)
        rounds  == ValidRounds(k, move, forward)
    IN  IF is_valid_position(new_pos, k.visited)
        THEN [ knight |-> Commit(k, new_pos), halted |-> FALSE ]
        ELSE IF rounds = {}
             THEN [ knight |-> k, halted |-> TRUE ]
             ELSE LET j == CHOOSE r \in rounds : \A q \in rounds : r <= q
                      test_pos ==
                          move_forward(k.position, test_move(move, j, forward))
                  IN  [ knight |-> Commit(RepairGene(k, at, j, forward), test_pos),
                        halted |-> FALSE ]

\* check_moves' reset that forgets to clear visited.
CheckMovesReset_KeepVisited(k) ==
    [ k EXCEPT !.position = START, !.path = << START >> ]

\* The first three statements of check_moves.
CheckMovesReset(k) ==
    [ k EXCEPT !.position = START, !.path = << START >>, !.visited = { START } ]

\* The loop of check_moves from gene at on.
RECURSIVE CheckMovesFrom(_, _, _)
CheckMovesFrom(k, at, forward) ==
    IF at > Len(k.genes)
    THEN k
    ELSE LET r == CheckMovesGene(k, at, forward)
         IN  IF r.halted THEN r.knight
             ELSE CheckMovesFrom(r.knight, at + 1, forward)

\* Knight.check_moves, for the value random.choice gave cycle_forward.
check_moves(k, forward) ==
    CheckMovesFrom(CheckMovesReset(k), 1, forward)

\* Knight.evaluate_fitness
evaluate_fitness(k) == [ k EXCEPT !.fitness = Len(k.path) ]

\* ------------------------------------------------ one knight, step by step
\* The genomes handed to Knight: FreeGenes free directions followed by one
\* repeated direction.
InputGenomes ==
    { GenomeOf(pre, t) : pre \in [ 1..FreeGenes -> Directions ], t \in Directions }

KnightInit ==
    /\ committed = None /\ moves = 0
    /\ lists = << >> /\ chromosomes = << >> /\ calls = << >> /\ writes = 0
    /\ best_fitness_ever = 0 /\ best_solution_ever = None
    /\ generations_without_improvement = 0 /\ generation_count = 0
    /\ mpc = "off" /\ ran = << >> /\ returned = << >> /\ kept = None
    /\ knight \in { NewKnight(g) : g \in InputGenomes }
    /\ cycle_forward = FALSE
    /\ i = 0
    /\ halted = FALSE
    /\ kpc = "constructed"
    /\ decodes = << >>
    /\ given = knight.genes
    /\ assignment = << >> /\ start = << >> /\ frames = << >> /\ result = "None"
    /\ bpc = "off" /\ solution = None /\ artifact = None /\ printed = << >>
    /\ self_genes = << >> /\ partner_genes = << >> /\ op = [ name |-> "off" ]
    /\ population_size = 0 /\ generation = 0 /\ knights = << >>
    /\ old_knights = << >> /\ new_knights = << >> /\ max_fitness = 0
    /\ best_knight = 0 /\ gpc = "off" /\ selection = None
    /\ query = << >> /\ answer = None

\* check_moves up to the loop: the reset and the coin flip.
CheckMovesStart ==
    /\ kpc \in { "constructed", "evaluated" }
    /\ Len(decodes) < MaxDecodes
    /\ knight' = CheckMovesReset(knight)
    /\ cycle_forward' \in BOOLEAN
    /\ i' = 1
    /\ halted' = FALSE
    /\ kpc' = IF Len(knight.genes) = 0 THEN "decoded" ELSE "loop"
    /\ given' = knight.genes
    /\ UNCHANGED decodes
    /\ UNCHANGED << bvars, ovars, gvars, cvars, mvars, hvars, uvars >>

\* One iteration of the loop; the loop ends by break or after the last gene.
\* A gene that is no key of Knight.MOVES makes move_forward raise KeyError,
\* which check_moves does not catch.
CheckMovesStep ==
    /\ kpc = "loop"
    /\ IF knight.genes[i] \notin Directions
       THEN /\ kpc' = "KeyError"
            /\ UNCHANGED << knight, halted, i >>
       ELSE LET r == CheckMovesGene(knight, i, cycle_forward)
            IN  /\ knight' = r.knight
                /\ halted' = r.halted
                /\ IF r.halted \/ i = Len(knight.genes)
                   THEN kpc' = "decoded" /\ i' = i
                   ELSE kpc' = "loop" /\ i' = i + 1
    /\ UNCHANGED << cycle_forward, decodes, given >>
    /\ UNCHANGED << bvars, ovars, gvars, cvars, mvars, hvars, uvars >>

EvaluateFitness ==
    /\ kpc = "decoded"
    /\ knight' = evaluate_fitness(knight)
    /\ kpc' = "evaluated"
    /\ decodes' = Append(decodes, [ bit |-> cycle_forward, fitness |-> knight'.fitness ])
    /\ UNCHANGED << cycle_forward, i, halted, given >>
    /\ UNCHANGED << bvars, ovars, gvars, cvars, mvars, hvars, uvars >>

KnightNext == CheckMovesStart \/ CheckMovesStep \/ EvaluateFitness

\* One Knight: construction, check_moves, evaluate_fitness.
SpecKnight == KnightInit /\ [][KnightNext]_vars

\* Two squares one knight move apart.
KnightApart(p, q) ==
    LET dx == IF p[1] >= q[1] THEN p[1] - q[1] ELSE q[1] - p[1]
        dy == IF p[2] >= q[2] THEN p[2] - q[2] ELSE q[2] - p[2]
    IN  (dx = 1 /\ dy = 2) \/ (dx = 2 /\ dy = 1)

OnBoard(p) == p[1] \in 0..(BOARD - 1) /\ p[2] \in 0..(BOARD - 1)

\* C1: after check_moves, for either value of cycle_forward, the path's
\* entries are pairwise distinct and on the board, and every adjacent pair
\* but possibly the last is one knight move apart.
C1_PathLegal ==
    kpc \in { "decoded", "evaluated" } =>
        LET path == knight.path
        IN  /\ \A a, b \in 1..Len(path) : a # b => path[a] # path[b]
            /\ \A a \in 1..Len(path) : OnBoard(path[a])
            /\ \A a \in 1..(Len(path) - 2) : KnightApart(path[a], path[a + 1])

\* A decode that repaired genes, revisits nothing and stopped by break.
C1_Witness ==
    /\ kpc = "decoded"
    /\ halted
    /\ knight.genes \notin InputGenomes
    /\ Len(knight.path) >= 30

\* C8: a second check_moves on the genome the first one repaired, with the
\* same cycle_forward bit, never yields a smaller fitness.
C8_RedecodeNotWorse ==
    \A n \in 2..Len(decodes) :
        decodes[n].bit = decodes[n - 1].bit =>
            decodes[n].fitness >= decodes[n - 1].fitness

\* Two decodes with the same bit of a genome the first one repaired and
\* stopped short on.
C8_Witness ==
    /\ Len(decodes) = 2
    /\ decodes[1].bit = decodes[2].bit
    /\ halted
    /\ knight.genes \notin InputGenomes
    /\ decodes[1].fitness < FULL

\* C14: in every state from construction on, inside a decode included,
\* visited is exactly the set of the path's entries, the path starts at
\* (0,0) and position is the path's last entry.
C14_VisitedIsPath ==
    /\ knight.visited = Range(knight.path)
    /\ Len(knight.path) >= 1
    /\ knight.path[1] = << 0, 0 >>
    /\ knight.position = knight.path[Len(knight.path)]

\* Inside the loop of a second check_moves, after a first decode that went
\* further than this one has got.
C14_Witness ==
    /\ kpc = "loop"
    /\ Len(decodes) = 1
    /\ i > 2
    /\ Len(knight.path) = i
    /\ decodes[1].fitness > i

\* C15: the fitness of a knight equals the length of its path in every
\* state: after construction, after check_moves, after evaluate_fitness.
C15_FitnessIsPathLength ==
    knight.fitness = Len(knight.path)

\* The direction next to d in the cycle 1, 2, .. 8, 1 (ascending) or in the
\* cycle 8, 7, .. 1, 8 (descending).
NextDirection(d, ascending) ==
    IF ascending
    THEN IF d = 8 THEN 1 ELSE d + 1
    ELSE IF d = 1 THEN 8 ELSE d - 1

\* The n directions that follow d in that cycle, nearest first.
RECURSIVE ProbeOrder(_, _, _)
ProbeOrder(d, ascending, n) ==
    IF n = 0
    THEN << >>
    ELSE << NextDirection(d, ascending) >>
            \o ProbeOrder(NextDirection(d, ascending), ascending, n - 1)

\* The square direction d leads to from the knight's position.
TargetOf(k, d) ==
    << k.position[1] + MOVES[d][1], k.position[2] + MOVES[d][2] >>

\* Whether a square is on the board and not visited by the knight.
LegalFor(k, pos) == OnBoard(pos) /\ pos \notin k.visited

\* C18: when the direction d of gene i leads to an illegal square, the
\* probes of rounds 1..7 are the other seven directions, once each, in the
\* cyclic order that starts next to d (ascending if cycle_forward,
\* descending if not); the first of them whose square is legal is written
\* into genes[i] and that move is committed.
C18_RepairOrder ==
    [][ (kpc = "loop" /\ knight.genes[i] \in Directions
            /\ ~LegalFor(knight, TargetOf(knight, knight.genes[i]))) =>
        LET d     == knight.genes[i]
            order == ProbeOrder(d, cycle_forward, 7)
            legal == { a \in 1..7 : LegalFor(knight, TargetOf(knight, order[a])) }
        IN  /\ \A j \in 1..7 : test_move(d, j, cycle_forward) = order[j]
            /\ Range(order) = Directions \ { d }
            /\ legal # { } =>
                LET first == CHOOSE a \in legal : \A b \in legal : a <= b
                IN  /\ knight'.genes = [ knight.genes EXCEPT ![i] = order[first] ]
                    /\ knight'.path =
                        Append(knight.path, TargetOf(knight, order[first]))
                    /\ knight'.position = TargetOf(knight, order[first])
                    /\ knight'.visited =
                        knight.visited \cup { TargetOf(knight, order[first]) }
      ]_vars

\* In a first decode that probes in descending order, the gene just
\* processed was repaired to a direction above the one it held: the probe
\* wrapped from 1 to 8.
C18_Witness ==
    /\ kpc = "loop"
    /\ Len(decodes) = 0
    /\ ~cycle_forward
    /\ i > FreeGenes + 1
    /\ Len(knight.path) = i
    /\ knight.genes[i - 1] > knight.genes[GenomeLen]

\* Whether no direction leads the knight to a legal square.
Stuck(k) == \A d \in Directions : ~LegalFor(k, TargetOf(k, d))

\* C19: an iteration of the decode loop stops the decode by break exactly
\* when no direction leads to a legal square from the current position;
\* the break leaves the knight (path, visited, position, genes) as it was,
\* any other iteration adds one square; and a decode that ends with a path
\* shorter than 64 ends on a square with no legal onward move.
C19_HaltWhenStuck ==
    [][ (kpc = "loop" /\ knight.genes[i] \in Directions) =>
        /\ halted' <=> Stuck(knight)
        /\ Stuck(knight) => (knight' = knight /\ kpc' = "decoded")
        /\ ~Stuck(knight) => Len(knight'.path) = Len(knight.path) + 1
        /\ (~Stuck(knight) /\ i < Len(knight.genes)) => (kpc' = "loop" /\ i' = i + 1)
        /\ (kpc' = "decoded" /\ Len(knight'.path) < 64) => Stuck(knight')
      ]_vars

\* A decode that repaired genes and then stopped by break before the last
\* gene, on a path shorter than 64.
C19_Witness ==
    /\ kpc = "decoded"
    /\ halted
    /\ i < GenomeLen
    /\ Len(knight.path) = i
    /\ Len(knight.path) < 64
    /\ knight.genes # given

\* C20: a decode depends only on the genes at its start and on the
\* cycle_forward bit: whatever position, path and visited set the knight
\* held when check_moves was entered, the path and the repaired genes it
\* ends with are those a freshly constructed knight with the same genes
\* gets from check_moves with the same bit.
C20_DecodeDeterministic ==
    kpc \in { "decoded", "evaluated" } =>
        LET fresh == check_moves(NewKnight(given), cycle_forward)
        IN  /\ knight.path = fresh.path
            /\ knight.genes = fresh.genes
            /\ knight.position = fresh.position
            /\ knight.visited = fresh.visited

\* A second decode, entered on a knight that still held the path of its
\* first decode, has ended; the first decode had repaired genes and had
\* gone further than one move.
C20_Witness ==
    /\ kpc = "decoded"
    /\ Len(decodes) = 1
    /\ decodes[1].fitness > 2
    /\ given \notin InputGenomes
    /\ decodes[1].bit # cycle_forward

\* C27: on a genome of 63 directions the first iteration of check_moves
\* never leaves the loop: the path has at least two squares from the second
\* iteration on, and the fitness evaluate_fitness then sets is at least 2
\* and at most 64.
C27_FitnessRange ==
    /\ ~(halted /\ i = 1)
    /\ (kpc \in { "loop", "decoded" } /\ (i > 1 \/ kpc = "decoded")) =>
            Len(knight.path) >= 2
    /\ kpc = "evaluated" => knight.fitness \in 2..64

\* A genome whose first gene leads off the board from (0, 0) and is repaired
\* only at the sixth probe has been decoded and evaluated.
C27_Witness ==
    /\ kpc = "evaluated"
    /\ Len(decodes) = 1
    /\ cycle_forward
    /\ given[1] = 3
    /\ knight.genes[1] = 1
    /\ knight.fitness >= 2

\* C29: after check_moves the path starts at (0, 0) and each of its squares
\* is reached from the one before by the move of the gene at that place,
\* the last square included: the first len(path) - 1 genes, replayed by
\* move_forward alone, give the path.
C29_GenesEncodePath ==
    kpc \in { "decoded", "evaluated" } =>
        /\ knight.path[1] = START
        /\ Len(knight.path) - 1 <= Len(knight.genes)
        /\ \A a \in 1..(Len(knight.path) - 1) :
            knight.path[a + 1] = move_forward(knight.path[a], knight.genes[a])

\* A decode left by break whose last committed move was a repaired one.
C29_Witness ==
    /\ kpc = "decoded"
    /\ halted
    /\ Len(knight.path) >= 3
    /\ given[Len(knight.path) - 1] # knight.genes[Len(knight.path) - 1]

\* ------------------------------------------------ a knight moved forward and
\* backward by hand
\* ------------------------------------------------------------ bounds
\* Largest number of committed moves and move_backward calls together.
MaxMoves == 5

\* Whether move_backward raises KeyError: the square it is about to take out
\* of visited is not in it.
MoveBackwardFails(k) ==
    /\ Len(k.path) > 2
    /\ k.path[Len(k.path) - 1] \notin k.visited

\* Knight.move_backward (its direction argument is not used): the knight
\* after the call, or at the KeyError of visited.remove.
move_backward(k) ==
    IF Len(k.path) > 1
    THEN LET path     == SubSeq(k.path, 1, Len(k.path) - 1)
             position == path[Len(path)]
         IN  [ k EXCEPT !.path = path,
                        !.position = position,
                        !.visited = IF Len(path) > 1 THEN @ \ { position } ELSE @ ]
    ELSE k

BackInit ==
    /\ knight = NewKnight(GenomeOf(<< >>, 1))
    /\ kpc = "ready"
    /\ committed = None
    /\ moves = 0
    /\ cycle_forward = FALSE /\ i = 0 /\ halted = FALSE
    /\ decodes = << >> /\ given = << >>
    /\ lists = << >> /\ chromosomes = << >> /\ calls = << >> /\ writes = 0
    /\ best_fitness_ever = 0 /\ best_solution_ever = None
    /\ generations_without_improvement = 0 /\ generation_count = 0
    /\ mpc = "off" /\ ran = << >> /\ returned = << >> /\ kept = None
    /\ query = << >> /\ answer = None
    /\ assignment = << >> /\ start = << >> /\ frames = << >> /\ result = "None"
    /\ bpc = "off" /\ solution = None /\ artifact = None /\ printed = << >>
    /\ self_genes = << >> /\ partner_genes = << >> /\ op = [ name |-> "off" ]
    /\ population_size = 0 /\ generation = 0 /\ knights = << >>
    /\ old_knights = << >> /\ new_knights = << >> /\ max_fitness = 0
    /\ best_knight = 0 /\ gpc = "off" /\ selection = None

\* A move is committed as check_moves commits it: new_pos is valid, the
\* position advances, new_pos is appended to path and added to visited.
CommitMove ==
    /\ kpc \in { "ready", "backed" }
    /\ moves < MaxMoves
    /\ \E direction \in Directions :
        LET new_pos == move_forward(knight.position, direction)
        IN  /\ is_valid_position(new_pos, knight.visited)
            /\ knight' = Commit(knight, new_pos)
    /\ committed' = << knight >>
    /\ moves' = moves + 1
    /\ kpc' = "ready"
    /\ UNCHANGED << cycle_forward, i, halted, decodes, given >>
    /\ UNCHANGED << bvars, ovars, gvars, cvars, mvars, hvars >>

\* knight.move_backward(direction)
MoveBackward ==
    /\ kpc \in { "ready", "backed" }
    /\ moves < MaxMoves
    /\ knight' = move_backward(knight)
    /\ kpc' = IF MoveBackwardFails(knight) THEN "KeyError" ELSE "backed"
    /\ committed' = IF kpc = "ready" THEN committed ELSE None
    /\ moves' = moves + 1
    /\ UNCHANGED << cycle_forward, i, halted, decodes, given >>
    /\ UNCHANGED << bvars, ovars, gvars, cvars, mvars, hvars >>

BackNext == CommitMove \/ MoveBackward

\* One Knight, moves committed and move_backward called in any order.
SpecBack == BackInit /\ [][BackNext]_vars

\* C28: when move_backward has been called right after a committed move,
\* position, path and visited are what they were before that move, and
\* visited is the set of the squares of path; called on a path of one
\* square, it changes nothing.
C28_BackwardUndoes ==
    [][ (kpc = "ready" /\ kpc' # "ready") =>
            /\ committed # None =>
                /\ knight'.position = committed[1].position
                /\ knight'.path = committed[1].path
                /\ knight'.visited = committed[1].visited
                /\ knight'.visited = Range(knight'.path)
            /\ Len(knight.path) = 1 => knight' = knight
      ]_vars

\* ============================================================ backtracking
\* get_neighbors' loop from move m on: the legal targets in MOVES order.
RECURSIVE NeighborsFrom(_, _, _, _)
NeighborsFrom(x, y, visited, m) ==
    IF m > Len(MOVES)
    THEN << >>
    ELSE LET nx == x + MOVES[m][1]
             ny == y + MOVES[m][2]
             rest == NeighborsFrom(x, y, visited, m + 1)
         IN  IF 0 <= nx /\ nx < BOARD /\ 0 <= ny /\ ny < BOARD
                /\ << nx, ny >> \notin visited
             THEN << << nx, ny >> >> \o rest
             ELSE rest

\* get_neighbors
get_neighbors(x, y, visited) == NeighborsFrom(x, y, visited, 1)

\* count_onward_moves' loop from move m on.
RECURSIVE CountFrom(_, _, _, _)
CountFrom(x, y, visited, m) ==
    IF m > Len(MOVES)
    THEN 0
    ELSE LET nx == x + MOVES[m][1]
             ny == y + MOVES[m][2]
         IN  (IF 0 <= nx /\ nx < BOARD /\ 0 <= ny /\ ny < BOARD
                 /\ << nx, ny >> \notin visited
              THEN 1 ELSE 0) + CountFrom(x, y, visited, m + 1)

\* A count that forgets the visited set.
count_onward_moves_Board(x, y, visited) == CountFrom(x, y, { }, 1)

\* count_onward_moves
count_onward_moves(x, y, visited) == CountFrom(x, y, visited, 1)

\* list.sort(key=...) on (key, x, y) items: Python's sort is stable, so an
\* item goes behind every item whose key is not larger.
RECURSIVE InsertByKey(_, _)
InsertByKey(sorted, item) ==
    IF sorted = << >>
    THEN << item >>
    ELSE IF sorted[Len(sorted)][1] <= item[1]
         THEN Append(sorted, item)
         ELSE Append(InsertByKey(SubSeq(sorted, 1, Len(sorted) - 1), item),
                     sorted[Len(sorted)])

RECURSIVE SortByKey(_)
SortByKey(items) ==
    IF items = << >>
    THEN << >>
    ELSE InsertByKey(SortByKey(SubSeq(items, 1, Len(items) - 1)), items[Len(items)])

\* [(x, y) for _, x, y in items]
Squares(items) == [ n \in 1..Len(items) |-> << items[n][2], items[n][3] >> ]

\* MRV: ascending by the onward moves of each successor, itself marked visited.
MRV(successors, visited) ==
    Squares(SortByKey(
        [ n \in 1..Len(successors) |->
            LET x == successors[n][1]
                y == successors[n][2]
            IN  << count_onward_moves(x, y, visited \cup { << x, y >> }), x, y >> ]))

RECURSIVE SumSeq(_)
SumSeq(s) == IF s = << >> THEN 0 ELSE s[1] + SumSeq(Tail(s))

\* LCV's total_freedom of a successor.
total_freedom(x, y, visited) ==
    LET temp_visited == visited \cup { << x, y >> }
        neighbors == get_neighbors(x, y, temp_visited)
    IN  SumSeq([ n \in 1..Len(neighbors) |->
            count_onward_moves(neighbors[n][1], neighbors[n][2], temp_visited) ])

\* LCV: descending by total_freedom (the sort key is -total_freedom).
LCV(successors, visited) ==
    Squares(SortByKey(
        [ n \in 1..Len(successors) |->
            LET x == successors[n][1]
                y == successors[n][2]
            IN  << 0 - total_freedom(x, y, visited), x, y >> ]))

\* successor_fct that ignores the visited set.
successor_fct_Revisit(x, y, visited) == get_neighbors(x, y, {})

\* successor_fct
successor_fct(x, y, visited) == get_neighbors(x, y, visited)

\* Lines 60-69 of backtracking: the successors of the last square, through
\* MRV and then LCV.
OrderedSuccessors(a) ==
    LET current == a[Len(a)]
        visited == Range(a)
        successors == successor_fct(current[1], current[2], visited)
    IN  IF successors = << >> THEN << >>
        ELSE LCV(MRV(successors, visited), visited)

\* The record with the moves made, not the squares visited, as total_moves.
solution_data_Moves(path) ==
    [ fitness |-> Len(path), path |-> path, total_moves |-> Len(path) - 1 ]

\* save_solution_to_file: the record dumped to knight_solution.json.
solution_data(path) ==
    [ fitness |-> Len(path), path |-> path, total_moves |-> Len(path) ]

\* The path that always moves to the first successor in MRV order.
RECURSIVE GreedyPath(_)
GreedyPath(a) ==
    LET visited == Range(a)
        successors == get_neighbors(a[Len(a)][1], a[Len(a)][2], visited)
    IN  IF Len(a) = FULL \/ successors = << >>
        THEN a
        ELSE GreedyPath(Append(a, MRV(successors, visited)[1]))

Greedy == GreedyPath(<< START >>)

\* The search starts on a legal knight path from (0,0) that leaves at most
\* MaxFree squares free: a prefix of Greedy, its last square replaced by any
\* legal move.
StartAssignments ==
    UNION { { Append(SubSeq(Greedy, 1, n - 1), q) :
                q \in Range(get_neighbors(Greedy[n - 1][1], Greedy[n - 1][2],
                                          Range(SubSeq(Greedy, 1, n - 1)))) } :
            n \in (Len(Greedy) - MaxFree)..Len(Greedy) }

BtInit ==
    /\ committed = None /\ moves = 0
    /\ lists = << >> /\ chromosomes = << >> /\ calls = << >> /\ writes = 0
    /\ best_fitness_ever = 0 /\ best_solution_ever = None
    /\ generations_without_improvement = 0 /\ generation_count = 0
    /\ mpc = "off" /\ ran = << >> /\ returned = << >> /\ kept = None
    /\ assignment \in StartAssignments
    /\ start = assignment
    /\ frames = << >>
    /\ result = "None"
    /\ bpc = "call"
    /\ solution = None
    /\ artifact = None
    /\ printed = << >>
    /\ knight = NewKnight(<< >>) /\ cycle_forward = FALSE /\ i = 0
    /\ halted = FALSE /\ kpc = "off" /\ decodes = << >> /\ given = << >>
    /\ self_genes = << >> /\ partner_genes = << >> /\ op = [ name |-> "off" ]
    /\ population_size = 0 /\ generation = 0 /\ knights = << >>
    /\ old_knights = << >> /\ new_knights = << >> /\ max_fitness = 0
    /\ best_knight = 0 /\ gpc = "off" /\ selection = None
    /\ query = << >> /\ answer = None

\* backtracking is entered: lines 57-69.
BtCall ==
    /\ bpc = "call"
    /\ IF Len(assignment) = FULL
       THEN /\ frames' = Append(frames, [ todo |-> << >>, entry |-> assignment ])
            /\ result' = "assignment"
            /\ bpc' = "return"
       ELSE LET successors == OrderedSuccessors(assignment)
            IN  /\ frames' = Append(frames, [ todo |-> successors, entry |-> assignment ])
                /\ IF successors = << >>
                   THEN result' = "None" /\ bpc' = "return"
                   ELSE result' = result /\ bpc' = "loop"
    /\ UNCHANGED << assignment, solution, artifact, printed, start >>
    /\ UNCHANGED << kvars, ovars, gvars, cvars, mvars, hvars, uvars >>

\* The for loop that gives up after its first candidate failed.
BtLoop_NoRetry ==
    /\ bpc = "loop"
    /\ LET top == frames[Len(frames)]
       IN  IF top.todo # << >> /\ Len(top.todo) = Len(OrderedSuccessors(top.entry))
           THEN /\ assignment' = Append(assignment, top.todo[1])
                /\ frames' = [ frames EXCEPT ![Len(frames)].todo = Tail(top.todo) ]
                /\ bpc' = "call"
                /\ UNCHANGED result
           ELSE /\ result' = "None"
                /\ bpc' = "return"
                /\ UNCHANGED << assignment, frames >>
    /\ UNCHANGED << solution, artifact, printed, start >>
    /\ UNCHANGED << kvars, ovars, gvars, cvars, mvars, hvars, uvars >>

\* The head of the for loop: the next candidate is appended and the
\* recursive call made; with none left, line 78 returns None.
BtLoop ==
    /\ bpc = "loop"
    /\ LET top == frames[Len(frames)]
       IN  IF top.todo # << >>
           THEN /\ assignment' = Append(assignment, top.todo[1])
                /\ frames' = [ frames EXCEPT ![Len(frames)].todo = Tail(top.todo) ]
                /\ bpc' = "call"
                /\ UNCHANGED result
           ELSE /\ result' = "None"
                /\ bpc' = "return"
                /\ UNCHANGED << assignment, frames >>
    /\ UNCHANGED << solution, artifact, printed, start >>
    /\ UNCHANGED << kvars, ovars, gvars, cvars, mvars, hvars, uvars >>

\* A return after which the caller leaves the failed candidate in place.
BtReturn_NoPop ==
    /\ bpc = "return"
    /\ frames' = SubSeq(frames, 1, Len(frames) - 1)
    /\ IF Len(frames) = 1
       THEN bpc' = "main"
       ELSE IF result # "None" THEN bpc' = "return" ELSE bpc' = "loop"
    /\ UNCHANGED << assignment, result, solution, artifact, printed, start >>
    /\ UNCHANGED << kvars, ovars, gvars, cvars, mvars, hvars, uvars >>

\* A call returns: to main, or to line 74 of its caller, which passes a
\* result on and pops the candidate after a None.
BtReturn ==
    /\ bpc = "return"
    /\ frames' = SubSeq(frames, 1, Len(frames) - 1)
    /\ IF Len(frames) = 1
       THEN bpc' = "main" /\ UNCHANGED assignment
       ELSE IF result # "None"
            THEN bpc' = "return" /\ UNCHANGED assignment
            ELSE /\ assignment' = SubSeq(assignment, 1, Len(assignment) - 1)
                 /\ bpc' = "loop"
    /\ UNCHANGED << result, solution, artifact, printed, start >>
    /\ UNCHANGED << kvars, ovars, gvars, cvars, mvars, hvars, uvars >>

\* main after the search: lines 93-101.
BtMain ==
    /\ bpc = "main"
    /\ solution' = IF result = "None" THEN None ELSE << assignment >>
    /\ IF result # "None" /\ assignment # << >>
       THEN /\ artifact' = << solution_data(assignment) >>
            /\ printed' = << "time" >>
       ELSE /\ artifact' = artifact
            /\ printed' = << "no solution" >>
    /\ bpc' = "done"
    /\ UNCHANGED << assignment, frames, result, start >>
    /\ UNCHANGED << kvars, ovars, gvars, cvars, mvars, hvars, uvars >>

BtNext == BtCall \/ BtLoop \/ BtReturn \/ BtMain

\* A knight's tour from (0,0): 64 distinct squares of the board, each one
\* knight move from the one before.
IsTour(a) ==
    /\ Len(a) = FULL
    /\ a[1] = START
    /\ \A n, m \in 1..Len(a) : n # m => a[n] # a[m]
    /\ \A n \in 1..Len(a) : OnBoard(a[n])
    /\ \A n \in 1..(Len(a) - 1) : KnightApart(a[n], a[n + 1])

\* C3: every result of backtracking other than None is a knight's tour
\* from (0,0).
C3_ResultIsTour ==
    (bpc \in { "return", "main", "done" } /\ result # "None") => IsTour(assignment)

\* A search that was started with MaxFree squares free and found a tour.
C3_Witness ==
    /\ bpc = "done"
    /\ result # "None"
    /\ Len(start) = FULL - MaxFree
    /\ solution = << assignment >>

\* The eight knight offsets, as a set.
KnightOffsets ==
    { d \in { -2, -1, 1, 2 } \X { -2, -1, 1, 2 } : d[1] # d[2] /\ d[1] # 0 - d[2] }

\* Whether some sequence of legal knight moves extends a to 64 distinct
\* squares: every continuation is tried, in no particular order.
RECURSIVE ExtendableFrom(_, _, _)
ExtendableFrom(last, seen, n) ==
    \/ n = FULL
    \/ \E d \in KnightOffsets :
        LET q == << last[1] + d[1], last[2] + d[2] >>
        IN  /\ OnBoard(q)
            /\ q \notin seen
            /\ ExtendableFrom(q, seen \cup { q }, n + 1)

Extendable(a) == ExtendableFrom(a[Len(a)], Range(a), Len(a))

\* C4: a call of backtracking returns None exactly when its assignment has
\* no extension to a tour; the indexing and the pop of the search never act
\* on an empty list, so nothing is raised; and after a None main writes no
\* artifact, prints "no solution" and returns None.
C4_NoneIffNoTour ==
    /\ bpc = "return" =>
        ((result = "None") <=> ~Extendable(frames[Len(frames)].entry))
    /\ bpc \in { "call", "loop" } => Len(assignment) >= 1
    /\ bpc \in { "loop", "return" } => Len(frames) >= 1
    /\ (bpc = "return" /\ Len(frames) > 1 /\ result = "None") =>
        Len(assignment) > Len(start)
    /\ (bpc = "done" /\ result = "None") =>
        (artifact = None /\ printed = << "no solution" >> /\ solution = None)

\* A search that failed at the top: main reported no solution.
C4_Witness ==
    /\ bpc = "done"
    /\ result = "None"
    /\ printed = << "no solution" >>
    /\ Len(start) < FULL

\* C5: every record written to knight_solution.json has fitness =
\* total_moves = len(path), fitness <= 64 and path[0] = (0,0).
C5_ArtifactRecord ==
    artifact # None =>
        LET rec == artifact[1]
        IN  /\ rec.fitness = Len(rec.path)
            /\ rec.total_moves = Len(rec.path)
            /\ rec.fitness <= 64
            /\ rec.path[1] = START

\* main wrote the artifact of a tour found after backtracking over failures.
C5_Witness ==
    /\ bpc = "done"
    /\ artifact # None
    /\ artifact[1].path = assignment
    /\ Len(start) < FULL

\* The backtracking solver and its main.
SpecBT == BtInit /\ [][BtNext]_vars

\* C17: at every recursion level the candidates are tried in ascending
\* order of their MRV count, and among candidates of equal MRV count in
\* descending order of their LCV score.
C17_MRVFirst ==
    \A n \in 1..Len(frames) :
        LET todo    == frames[n].todo
            visited == Range(frames[n].entry)
            mrv(q)  == count_onward_moves(q[1], q[2], visited \cup { q })
            lcv(q)  == total_freedom(q[1], q[2], visited)
        IN  \A a, b \in 1..Len(todo) :
                a < b =>
                    \/ mrv(todo[a]) < mrv(todo[b])
                    \/ mrv(todo[a]) = mrv(todo[b]) /\ lcv(todo[a]) >= lcv(todo[b])

\* Whether sequence a is the beginning of sequence b.
IsPrefix(a, b) == Len(a) <= Len(b) /\ SubSeq(b, 1, Len(a)) = a

\* C30: when a call of backtracking returns None, at whatever depth, the
\* assignment is what it was when the call was entered; when it returns a
\* result, the result is the assignment list itself and begins with what
\* the assignment was at entry.
C30_AssignmentRestored ==
    bpc = "return" =>
        LET top == frames[Len(frames)]
        IN  IF result = "None"
            THEN assignment = top.entry
            ELSE /\ result = "assignment"
                 /\ IsPrefix(top.entry, assignment)

\* A call two levels below the first returns None after it has appended,
\* tried and popped each of its two or more candidates.
C30_Witness ==
    /\ bpc = "return"
    /\ result = "None"
    /\ Len(frames) >= 3
    /\ frames[Len(frames)].todo = << >>
    /\ Len(OrderedSuccessors(frames[Len(frames)].entry)) >= 2

\* ============================================================ Chromosome
\* The values random.randint(1, len(self.genes) - 1) can give.
CrossoverPoints(genes) == 1..(Len(genes) - 1)

\* genes[:p]
Prefix(genes, p) == SubSeq(genes, 1, p)

\* genes[p:]
Suffix(genes, p) == SubSeq(genes, p + 1, Len(genes))

\* A crossover that loses the gene at the crossover point.
crossover_DropGene(self, partner, crossover_point) ==
    << Prefix(self, crossover_point) \o Suffix(partner, crossover_point + 1),
       Prefix(partner, crossover_point) \o Suffix(self, crossover_point + 1) >>

\* A crossover that cuts the first parent of each child one gene early.
crossover_CutEarly(self, partner, crossover_point) ==
    << Prefix(self, crossover_point - 1) \o Suffix(partner, crossover_point - 1),
       Prefix(partner, crossover_point - 1) \o Suffix(self, crossover_point - 1) >>

\* Chromosome.crossover for the point random.randint gave: the genes of
\* offspring1 and of offspring2.
crossover(self, partner, crossover_point) ==
    << Prefix(self, crossover_point) \o Suffix(partner, crossover_point),
       Prefix(partner, crossover_point) \o Suffix(self, crossover_point) >>

\* What random.random() can give, in hundredths: the ends of [0, 1) and the
\* two values around the default rate.
RandomDraws == { 0, DefaultMutationRate - 1, DefaultMutationRate, 99 }

\* The draws of one mutation call, one period of them: for a gene, what
\* random.random() gives and what random.randint(1, 8) gives if it is called.
OpTapes == [ 1..TapePeriod -> RandomDraws \X Directions ]

\* The draws gene by gene.
TapeOf(t) == [ n \in 1..GenomeLen |-> t[((n - 1) % TapePeriod) + 1] ]

\* A mutation that compares with <= instead of <.
mutation_Inclusive(genes, mutation_rate, tape) ==
    [ n \in 1..Len(genes) |->
        IF tape[n][1] <= mutation_rate THEN tape[n][2] ELSE genes[n] ]

\* Chromosome.mutation: the loop visits every index once, and gene n is
\* replaced exactly when its draw is below the rate.
mutation(genes, mutation_rate, tape) ==
    [ n \in 1..Len(genes) |->
        IF tape[n][1] < mutation_rate THEN tape[n][2] ELSE genes[n] ]

\* ------------------------------------------------ two chromosomes, one call
\* The genomes the operators are applied to: 1, 2, .. 8 repeated, and the
\* two genomes of one repeated extreme direction.
OpGenomes ==
    { [ n \in 1..GenomeLen |-> ((n - 1) % 8) + 1 ],
      GenomeOf(<< >>, 1),
      GenomeOf(<< >>, 8) }

\* The rates mutation is called with: 0, the default and 1.
OpRates == { 0, DefaultMutationRate, 100 }

OpsInit ==
    /\ committed = None /\ moves = 0
    /\ lists = << >> /\ chromosomes = << >> /\ calls = << >> /\ writes = 0
    /\ best_fitness_ever = 0 /\ best_solution_ever = None
    /\ generations_without_improvement = 0 /\ generation_count = 0
    /\ mpc = "off" /\ ran = << >> /\ returned = << >> /\ kept = None
    /\ self_genes \in OpGenomes
    /\ partner_genes \in OpGenomes
    /\ op = [ name |-> "none" ]
    /\ knight = NewKnight(<< >>) /\ cycle_forward = FALSE /\ i = 0
    /\ halted = FALSE /\ kpc = "off" /\ decodes = << >> /\ given = << >>
    /\ assignment = << >> /\ start = << >> /\ frames = << >> /\ result = "None"
    /\ bpc = "off" /\ solution = None /\ artifact = None /\ printed = << >>
    /\ population_size = 0 /\ generation = 0 /\ knights = << >>
    /\ old_knights = << >> /\ new_knights = << >> /\ max_fitness = 0
    /\ best_knight = 0 /\ gpc = "off" /\ selection = None
    /\ query = << >> /\ answer = None

\* self.crossover(partner): the parents are left as they are.
Crossover ==
    /\ op.name = "none"
    /\ \E crossover_point \in CrossoverPoints(self_genes) :
        LET offspring == crossover(self_genes, partner_genes, crossover_point)
        IN  op' = [ name       |-> "crossover",
                    point      |-> crossover_point,
                    parent1    |-> self_genes,
                    parent2    |-> partner_genes,
                    offspring1 |-> offspring[1],
                    offspring2 |-> offspring[2] ]
    /\ UNCHANGED << self_genes, partner_genes >>
    /\ UNCHANGED << kvars, bvars, gvars, cvars, mvars, hvars, uvars >>

\* self.mutation(mutation_rate): the genes are changed in place.
Mutation ==
    /\ op.name = "none"
    /\ \E mutation_rate \in OpRates, t \in OpTapes :
        /\ self_genes' = mutation(self_genes, mutation_rate, TapeOf(t))
        /\ op' = [ name   |-> "mutation",
                   rate   |-> mutation_rate,
                   tape   |-> TapeOf(t),
                   before |-> self_genes ]
    /\ UNCHANGED partner_genes
    /\ UNCHANGED << kvars, bvars, gvars, cvars, mvars, hvars, uvars >>

OpsNext == Crossover \/ Mutation

\* One call of a Chromosome operator on a pair of chromosomes.
SpecOps == OpsInit /\ [][OpsNext]_vars

\* C6: crossover on two genomes of length 63 cuts at a point p in 1..62;
\* offspring1 is parent1[:p] + parent2[p:], offspring2 is parent2[:p] +
\* parent1[p:], and both have length 63.
C6_CrossoverSplices ==
    (op.name = "crossover" /\ Len(op.parent1) = 63 /\ Len(op.parent2) = 63) =>
        /\ 1 <= op.point /\ op.point <= 62
        /\ Len(op.offspring1) = 63
        /\ Len(op.offspring2) = 63
        /\ \A n \in 1..63 :
            /\ op.offspring1[n] =
                IF n <= op.point THEN op.parent1[n] ELSE op.parent2[n]
            /\ op.offspring2[n] =
                IF n <= op.point THEN op.parent2[n] ELSE op.parent1[n]

\* A crossover of two different genomes at the last point, whose children
\* are neither parent.
C6_Witness ==
    /\ op.name = "crossover"
    /\ op.point = 62
    /\ op.parent1 # op.parent2
    /\ op.offspring1 \notin { op.parent1, op.parent2 }
    /\ op.offspring2 \notin { op.parent1, op.parent2 }

\* C7: mutation with rate 0 leaves every gene as it was; mutation with rate
\* 1 leaves in every gene the direction in 1..8 freshly drawn for it.
C7_MutationExtremes ==
    op.name = "mutation" =>
        /\ op.rate = 0 => self_genes = op.before
        /\ op.rate = 100 =>
            \A n \in 1..Len(op.before) :
                self_genes[n] = op.tape[n][2] /\ self_genes[n] \in 1..8
        /\ Len(self_genes) = Len(op.before)

\* A rate-1 call whose draws were all 0.99, the largest, and which changed
\* every gene of the genome.
C7_Witness ==
    /\ op.name = "mutation"
    /\ \A n \in 1..GenomeLen : op.tape[n][1] = 99
    /\ op.rate = 100
    /\ \A n \in 1..GenomeLen : self_genes[n] # op.before[n]

\* ============================================================ Population
\* Population.__init__, for the genes the Chromosome constructors drew.
NewPopulation(genomes) ==
    [ n \in 1..Len(genomes) |-> NewKnight(genomes[n]) ]

\* Population.check_population, for the bit random.choice gave each knight.
check_population(ks, bits) ==
    [ n \in 1..Len(ks) |-> check_moves(ks[n], bits[n]) ]

\* The loop of Population.evaluate from knight n on: the greatest fitness so
\* far and the first knight that has it (0 for None).
RECURSIVE EvaluateFrom(_, _, _, _)
\* The loop with >= for >: the last knight of the greatest fitness.
EvaluateFrom_Last(ks, n, max, best) ==
    IF n > Len(ks)
    THEN [ max_fitness |-> max, best_knight |-> best ]
    ELSE LET fitness == evaluate_fitness(ks[n]).fitness
         IN  IF fitness >= max
             THEN EvaluateFrom(ks, n + 1, fitness, n)
             ELSE EvaluateFrom(ks, n + 1, max, best)

\* Population.evaluate's loop, as above.
EvaluateFrom(ks, n, max, best) ==
    IF n > Len(ks)
    THEN [ max_fitness |-> max, best_knight |-> best ]
    ELSE LET fitness == evaluate_fitness(ks[n]).fitness
         IN  IF fitness > max
             THEN EvaluateFrom(ks, n + 1, fitness, n)
             ELSE EvaluateFrom(ks, n + 1, max, best)

\* Population.evaluate: every knight's fitness is set; max_fitness and
\* best_knight are returned.
evaluate(ks) ==
    [ knights |-> [ n \in 1..Len(ks) |-> evaluate_fitness(ks[n]) ] ]
        @@ EvaluateFrom(ks, 1, 0, 0)

\* random.sample(self.knights, size) raises ValueError when size is larger
\* than the population (or negative).
SampleFails(ks, size) == size > Len(ks) \/ size < 0

\* What random.sample(self.knights, size) can give: size knights at distinct
\* places of the list, in any order.
Samples(ks, size) ==
    { s \in [ 1..size -> 1..Len(ks) ] :
        \A a, b \in 1..size : a # b => s[a] # s[b] }

\* max's scan of the tournament from its entry a on: best is the place of
\* the knight kept so far, replaced only by a knight of greater fitness.
RECURSIVE MaxFrom(_, _, _, _)
MaxFrom(ks, tournament, a, best) ==
    IF a > Len(tournament)
    THEN best
    ELSE IF ks[tournament[a]].fitness > ks[best].fitness
         THEN MaxFrom(ks, tournament, a + 1, tournament[a])
         ELSE MaxFrom(ks, tournament, a + 1, best)

\* A max that keeps the last knight of the tournament.
MaxByFitness_Last(ks, tournament) == tournament[Len(tournament)]

\* max(tournament, key=lambda k: k.fitness), as a place in self.knights.
MaxByFitness(ks, tournament) == MaxFrom(ks, tournament, 2, tournament[1])

\* One tournament of Population.tournament_selection with its default size,
\* after the parents already chosen: the sample drawn and the parents with
\* its winner added (places in self.knights).
Tournaments(ks, parents) ==
    { [ tournament |-> t, parents |-> Append(parents, MaxByFitness(ks, t)) ] :
        t \in Samples(ks, DefaultTournamentSize) }

\* One iteration of create_new_generation's loop, for the parents, the
\* crossover point and the mutation draws it got: new_knights afterwards.
Breed(ks, new, size, parents, crossover_point, tape1, tape2) ==
    LET offspring ==
            crossover(ks[parents[1]].genes, ks[parents[2]].genes, crossover_point)
        offspring1 == mutation(offspring[1], DefaultMutationRate, tape1)
        offspring2 == mutation(offspring[2], DefaultMutationRate, tape2)
        one == Append(new, NewKnight(offspring1))
    IN  IF Len(one) < size THEN Append(one, NewKnight(offspring2)) ELSE one

\* ------------------------------------------------ a population, generation
\* by generation
\* The genomes the first generation is drawn from.
GASeeds == { GenomeOf(<< 1, 1 >>, 6), GenomeOf(<< >>, 1) }

\* The crossover points tried in a generation: the first and the last.
GACutPoints(genes) ==
    { p \in CrossoverPoints(genes) : p = 1 \/ p = Len(genes) - 1 }

\* The mutation draws tried in a generation: no gene below the rate, or the
\* first gene of every period below it and replaced by direction 8.
GATapes ==
    { [ n \in 1..TapePeriod |-> IF n = 1 THEN e ELSE << 99, 1 >> ] :
        e \in { << 0, 8 >>, << 99, 1 >> } }

GaInit ==
    /\ committed = None /\ moves = 0
    /\ lists = << >> /\ chromosomes = << >> /\ calls = << >> /\ writes = 0
    /\ best_fitness_ever = 0 /\ best_solution_ever = None
    /\ generations_without_improvement = 0 /\ generation_count = 0
    /\ mpc = "off" /\ ran = << >> /\ returned = << >> /\ kept = None
    /\ population_size \in 1..MaxPop
    /\ generation = 1
    /\ knights \in { NewPopulation(g) : g \in [ 1..population_size -> GASeeds ] }
    /\ old_knights = << >>
    /\ new_knights = << >>
    /\ max_fitness = 0
    /\ best_knight = 0
    /\ gpc = "check"
    /\ selection = None
    /\ query = << >> /\ answer = None
    /\ knight = NewKnight(<< >>) /\ cycle_forward = FALSE /\ i = 0
    /\ halted = FALSE /\ kpc = "off" /\ decodes = << >> /\ given = << >>
    /\ assignment = << >> /\ start = << >> /\ frames = << >> /\ result = "None"
    /\ bpc = "off" /\ solution = None /\ artifact = None /\ printed = << >>
    /\ self_genes = << >> /\ partner_genes = << >> /\ op = [ name |-> "off" ]

\* population.check_population()
CheckPopulation ==
    /\ gpc = "check"
    /\ \E bits \in [ 1..Len(knights) -> BOOLEAN ] :
        knights' = check_population(knights, bits)
    /\ gpc' = "evaluate"
    /\ UNCHANGED << population_size, generation, old_knights, new_knights,
                    max_fitness, best_knight, selection >>
    /\ UNCHANGED << kvars, bvars, ovars, cvars, mvars, hvars, uvars >>

\* maxFit, bestSolution = population.evaluate()
Evaluate ==
    /\ gpc = "evaluate"
    /\ LET r == evaluate(knights)
       IN  /\ knights' = r.knights
           /\ max_fitness' = r.max_fitness
           /\ best_knight' = r.best_knight
    /\ gpc' = "reproduce"
    /\ UNCHANGED << population_size, generation, old_knights, new_knights,
                    selection >>
    /\ UNCHANGED << kvars, bvars, ovars, cvars, mvars, hvars, uvars >>

\* create_new_generation up to its loop, called while main's loop goes on.
CreateNewGenerationStart ==
    /\ gpc = "reproduce"
    /\ generation <= MaxGenerations
    /\ new_knights' = << >>
    /\ gpc' = "breed"
    /\ UNCHANGED << population_size, generation, knights, old_knights,
                    max_fitness, best_knight, selection >>
    /\ UNCHANGED << kvars, bvars, ovars, cvars, mvars, hvars, uvars >>

\* tournament_selection's first tournament, at the head of an iteration of
\* create_new_generation's loop.  The ValueError of random.sample is caught
\* nowhere: it ends create_new_generation and main.
SelectParent1 ==
    /\ gpc = "breed"
    /\ Len(new_knights) < population_size
    /\ IF SampleFails(knights, DefaultTournamentSize)
       THEN /\ gpc' = "ValueError"
            /\ UNCHANGED selection
       ELSE /\ \E call \in Tournaments(knights, << >>) : selection' = << call >>
            /\ gpc' = "select"
    /\ UNCHANGED << population_size, generation, knights, old_knights,
                    new_knights, max_fitness, best_knight >>
    /\ UNCHANGED << kvars, bvars, ovars, cvars, mvars, hvars, uvars >>

\* tournament_selection's second tournament.
SelectParent2 ==
    /\ gpc = "select"
    /\ \E call \in Tournaments(knights, selection[1].parents) :
        selection' = << call >>
    /\ gpc' = "cross"
    /\ UNCHANGED << population_size, generation, knights, old_knights,
                    new_knights, max_fitness, best_knight >>
    /\ UNCHANGED << kvars, bvars, ovars, cvars, mvars, hvars, uvars >>

\* The rest of the iteration: crossover, the two mutations, the new knights.
CreateNewGenerationStep ==
    /\ gpc = "cross"
    /\ LET parents == selection[1].parents
       IN  \E crossover_point \in GACutPoints(knights[parents[1]].genes) :
               \E t1 \in GATapes, t2 \in GATapes :
                   new_knights' =
                       Breed(knights, new_knights, population_size, parents,
                             crossover_point, TapeOf(t1), TapeOf(t2))
    /\ selection' = None
    /\ gpc' = "breed"
    /\ UNCHANGED << population_size, generation, knights, old_knights,
                    max_fitness, best_knight >>
    /\ UNCHANGED << kvars, bvars, ovars, cvars, mvars, hvars, uvars >>

\* create_new_generation after its loop: the new knights replace the old.
CreateNewGenerationEnd ==
    /\ gpc = "breed"
    /\ Len(new_knights) >= population_size
    /\ knights' = SubSeq(new_knights, 1, population_size)
    /\ old_knights' = knights
    /\ generation' = generation + 1
    /\ gpc' = "check"
    /\ UNCHANGED << population_size, new_knights, max_fitness, best_knight,
                    selection >>
    /\ UNCHANGED << kvars, bvars, ovars, cvars, mvars, hvars, uvars >>

GaNext ==
    \/ CheckPopulation
    \/ Evaluate
    \/ CreateNewGenerationStart
    \/ SelectParent1
    \/ SelectParent2
    \/ CreateNewGenerationStep
    \/ CreateNewGenerationEnd

\* A Population under the loop of main.
SpecGA == GaInit /\ [][GaNext]_vars

\* C9: after create_new_generation on an evaluated population whose best
\* fitness is 50, the new generation holds the genome of the previous best
\* knight unchanged.
C9_ElitePreserved ==
    (gpc = "check" /\ generation > 1 /\ max_fitness = 50) =>
        \E n \in 1..Len(knights) :
            knights[n].genes = old_knights[best_knight].genes

\* C10: whatever the population size from 1 up, tournament_selection and
\* create_new_generation complete: the sample raises no ValueError.
C10_NoSampleError ==
    population_size >= 1 => gpc # "ValueError"

C13_GenomeShape ==
    \A ks \in { knights, new_knights, old_knights } :
        \A n \in 1..Len(ks) :
            /\ Len(ks[n].genes) = 63
            /\ \A a \in 1..Len(ks[n].genes) : ks[n].genes[a] \in 1..8

\* A second generation, bred by crossover and mutation and then decoded,
\* with a knight whose repaired genome no knight of the first generation had.
C13_Witness ==
    /\ generation = 2
    /\ gpc = "reproduce"
    /\ \E n \in 1..Len(knights) :
        /\ knights[n].fitness > 1
        /\ \A m \in 1..Len(old_knights) : knights[n].genes # old_knights[m].genes
        /\ \A g \in GASeeds : knights[n].genes # g

\* ------------------------------------------------ a knight on a genome that
\* breaks the contract
\* Whether a genome is not 63 directions in 1..8.
Malformed(genes) ==
    Len(genes) # 63 \/ \E n \in 1..Len(genes) : genes[n] \notin 1..8

\* Genomes a caller can hand to Chromosome(genes) against the contract: a
\* seed genome cut to no gene, to one gene or to 62 genes, or with one gene
\* more, or with its first or its last gene replaced by 0 or by 9.
MalformedGenomes ==
    UNION { { SubSeq(g, 1, 0), SubSeq(g, 1, 1), SubSeq(g, 1, GenomeLen - 1),
              Append(g, g[GenomeLen]) }
            \cup { [ g EXCEPT ![n] = d ] : n \in { 1, GenomeLen }, d \in { 0, 9 } } :
            g \in GASeeds }

MalformedInit ==
    /\ committed = None /\ moves = 0
    /\ lists = << >> /\ chromosomes = << >> /\ calls = << >> /\ writes = 0
    /\ best_fitness_ever = 0 /\ best_solution_ever = None
    /\ generations_without_improvement = 0 /\ generation_count = 0
    /\ mpc = "off" /\ ran = << >> /\ returned = << >> /\ kept = None
    /\ knight \in { NewKnight(g) : g \in MalformedGenomes }
    /\ cycle_forward = FALSE
    /\ i = 0
    /\ halted = FALSE
    /\ kpc = "constructed"
    /\ decodes = << >>
    /\ given = knight.genes
    /\ assignment = << >> /\ start = << >> /\ frames = << >> /\ result = "None"
    /\ bpc = "off" /\ solution = None /\ artifact = None /\ printed = << >>
    /\ self_genes = << >> /\ partner_genes = << >> /\ op = [ name |-> "off" ]
    /\ population_size = 0 /\ generation = 0 /\ knights = << >>
    /\ old_knights = << >> /\ new_knights = << >> /\ max_fitness = 0
    /\ best_knight = 0 /\ gpc = "off" /\ selection = None
    /\ query = << >> /\ answer = None

\* One Knight constructed on a malformed genome, then decoded.
SpecMalformed == MalformedInit /\ [][KnightNext]_vars

\* C12: a genome that is not 63 directions in 1..8 is rejected when the
\* chromosome is constructed or when check_moves is called: no decode of it
\* ever completes.
C12_MalformedRejected ==
    Malformed(knight.genes) => kpc \notin { "decoded", "evaluated" }

\* ------------------------------------------------ one call of each of
\* count_onward_moves and get_neighbors
\* The squares of the board.
Board == (0..(BOARD - 1)) \X (0..(BOARD - 1))

\* The squares a knight's offset away from a square, on the board or off it.
Targets(square) ==
    { << square[1] + d[1], square[2] + d[2] >> : d \in KnightOffsets }

\* The arguments of a call: any square of the board, and as visited any set
\* of squares a knight move away from it, with or without the square itself
\* (no other square has a part in the result).
CountQueries ==
    UNION { { [ x |-> square[1], y |-> square[2], visited |-> around \cup own ] :
                around \in SUBSET (Targets(square) \cap Board),
                own \in { { }, { square } } } :
            square \in Board }

CountInit ==
    /\ committed = None /\ moves = 0
    /\ lists = << >> /\ chromosomes = << >> /\ calls = << >> /\ writes = 0
    /\ best_fitness_ever = 0 /\ best_solution_ever = None
    /\ generations_without_improvement = 0 /\ generation_count = 0
    /\ mpc = "off" /\ ran = << >> /\ returned = << >> /\ kept = None
    /\ query \in CountQueries
    /\ answer = [ count |-> None, neighbors |-> None ]
    /\ knight = NewKnight(<< >>) /\ cycle_forward = FALSE /\ i = 0
    /\ halted = FALSE /\ kpc = "off" /\ decodes = << >> /\ given = << >>
    /\ assignment = << >> /\ start = << >> /\ frames = << >> /\ result = "None"
    /\ bpc = "off" /\ solution = None /\ artifact = None /\ printed = << >>
    /\ self_genes = << >> /\ partner_genes = << >> /\ op = [ name |-> "off" ]
    /\ population_size = 0 /\ generation = 0 /\ knights = << >>
    /\ old_knights = << >> /\ new_knights = << >> /\ max_fitness = 0
    /\ best_knight = 0 /\ gpc = "off" /\ selection = None

\* count_onward_moves(x, y, visited)
CountOnwardMoves ==
    /\ answer.count = None
    /\ answer' = [ answer EXCEPT
                     !.count = << count_onward_moves(query.x, query.y, query.visited) >> ]
    /\ UNCHANGED query
    /\ UNCHANGED << kvars, bvars, ovars, gvars, mvars, hvars, uvars >>

\* get_neighbors(x, y, visited)
GetNeighbors ==
    /\ answer.neighbors = None
    /\ answer' = [ answer EXCEPT
                     !.neighbors = << get_neighbors(query.x, query.y, query.visited) >> ]
    /\ UNCHANGED query
    /\ UNCHANGED << kvars, bvars, ovars, gvars, mvars, hvars, uvars >>

CountNext == CountOnwardMoves \/ GetNeighbors

\* The two functions called on the same arguments.
SpecCount == CountInit /\ [][CountNext]_vars

\* C16: count_onward_moves gives the number of knight offsets whose target
\* is on the board and not in visited, which is the length of
\* get_neighbors' list; for (0,0) with visited {(0,0)} it gives 2.
C16_CountOnward ==
    answer.count # None =>
        /\ answer.count[1] =
            Cardinality({ t \in Targets(<< query.x, query.y >>) :
                            OnBoard(t) /\ t \notin query.visited })
        /\ answer.neighbors # None => answer.count[1] = Len(answer.neighbors[1])
        /\ (query.x = 0 /\ query.y = 0 /\ query.visited = { << 0, 0 >> }) =>
            answer.count[1] = 2

\* Both functions have answered for the corner (0,0) with only the corner
\* visited.
C16_Witness ==
    /\ query = [ x |-> 0, y |-> 0, visited |-> { << 0, 0 >> } ]
    /\ answer.count = << 2 >>
    /\ answer.neighbors # None
    /\ Len(answer.neighbors[1]) = 2

\* ============================================================ main
\* main of knights_tour_console.py: the loop around a Population.
\* ------------------------------------------------------------ bounds
\* main's max_generations (200 in the source).
max_generations == 2

\* main's max_stagnant_generations (50 in the source).
max_stagnant_generations == 1

\* A genome that decodes, without repair, to a tour of the 64 squares.
TourGenome ==
    << 1, 4, 1, 2, 7, 2, 5, 4, 7, 5, 8, 5, 3, 6, 3, 1, 4, 1, 7, 5, 6,
       8, 7, 2, 7, 4, 1, 4, 3, 6, 3, 8, 1, 6, 7, 2, 2, 8, 5, 4, 5, 4,
       6, 8, 1, 7, 4, 5, 2, 7, 5, 3, 6, 3, 8, 2, 4, 2, 5, 8, 1, 7, 6 >>

\* The genomes main's first generation is drawn from.
MainSeeds == GASeeds \cup { TourGenome }

\* main's population_size (100 in the source), scaled down to the smallest
\* population whose tournaments can be sampled.
MainPopulationSize == DefaultTournamentSize

\* tournament_selection: the pairs of parents it can return (places in
\* self.knights).
tournament_selection(ks) ==
    UNION { { second.parents : second \in Tournaments(ks, first.parents) } :
            first \in Tournaments(ks, << >>) }

\* The loop of create_new_generation from new_knights = new on: the lists
\* new_knights can be when the loop ends.
RECURSIVE NewKnightsFrom(_, _, _)
NewKnightsFrom(ks, new, size) ==
    IF Len(new) >= size
    THEN { new }
    ELSE UNION {
            NewKnightsFrom(ks,
                Breed(ks, new, size, parents, crossover_point,
                      TapeOf(t1), TapeOf(t2)),
                size) :
            parents \in tournament_selection(ks),
            crossover_point \in GACutPoints(ks[1].genes),
            t1 \in GATapes, t2 \in GATapes }

\* Population.create_new_generation: the lists self.knights can become.
create_new_generation(ks, size) ==
    { SubSeq(new, 1, size) : new \in NewKnightsFrom(ks, << >>, size) }

\* The Knight object best_solution_ever refers to, as it is now.
BestSolutionEver ==
    LET ref == best_solution_ever[1]
    IN  IF ref.generation = generation THEN knights[ref.place] ELSE kept[1]

MainInit ==
    /\ committed = None /\ moves = 0
    /\ lists = << >> /\ chromosomes = << >> /\ calls = << >> /\ writes = 0
    /\ population_size = MainPopulationSize
    /\ generation = 1
    /\ knights \in { NewPopulation(g) : g \in [ 1..population_size -> MainSeeds ] }
    /\ max_fitness = 0
    /\ best_knight = 0
    /\ best_fitness_ever = 0
    /\ best_solution_ever = None
    /\ generations_without_improvement = 0
    /\ generation_count = 0
    /\ mpc = "while"
    /\ ran = << >>
    /\ returned = << >>
    /\ kept = None
    /\ old_knights = << >> /\ new_knights = << >> /\ gpc = "off"
    /\ selection = None
    /\ query = << >> /\ answer = None
    /\ knight = NewKnight(<< >>) /\ cycle_forward = FALSE /\ i = 0
    /\ halted = FALSE /\ kpc = "off" /\ decodes = << >> /\ given = << >>
    /\ assignment = << >> /\ start = << >> /\ frames = << >> /\ result = "None"
    /\ bpc = "off" /\ solution = None /\ artifact = None /\ printed = << >>
    /\ self_genes = << >> /\ partner_genes = << >> /\ op = [ name |-> "off" ]

\* A loop that goes from its test straight to create_new_generation.
MainWhile_NoCheck ==
    /\ mpc = "while"
    /\ mpc' = IF generation_count < max_generations THEN "create" ELSE "done"
    /\ UNCHANGED << best_fitness_ever, best_solution_ever,
                    generations_without_improvement, generation_count, ran,
                    returned, kept >>
    /\ UNCHANGED << kvars, bvars, ovars, gvars, cvars, hvars, uvars >>

\* while generation_count < max_generations:
MainWhile ==
    /\ mpc = "while"
    /\ mpc' = IF generation_count < max_generations THEN "check" ELSE "done"
    /\ UNCHANGED << best_fitness_ever, best_solution_ever,
                    generations_without_improvement, generation_count, ran,
                    returned, kept >>
    /\ UNCHANGED << kvars, bvars, ovars, gvars, cvars, hvars, uvars >>

\* population.check_population()
MainCheckPopulation ==
    /\ mpc = "check"
    /\ \E bits \in [ 1..Len(knights) -> BOOLEAN ] :
        knights' = check_population(knights, bits)
    /\ ran' = Append(ran, "check_population")
    /\ mpc' = "evaluate"
    /\ UNCHANGED << best_fitness_ever, best_solution_ever,
                    generations_without_improvement, generation_count,
                    returned, kept >>
    /\ UNCHANGED << population_size, generation, old_knights, new_knights,
                    max_fitness, best_knight, gpc, selection >>
    /\ UNCHANGED << kvars, bvars, ovars, cvars, hvars, uvars >>

\* A tracking that keeps the latest evaluation's result, better or not.
MainEvaluate_Latest ==
    /\ mpc = "evaluate"
    /\ LET r == evaluate(knights)
       IN  /\ knights' = r.knights
           /\ max_fitness' = r.max_fitness
           /\ best_knight' = r.best_knight
           /\ returned' = Append(returned, r.max_fitness)
           /\ best_fitness_ever' = r.max_fitness
           /\ best_solution_ever' =
                << [ generation |-> generation, place |-> r.best_knight ] >>
           /\ kept' = None
           /\ generations_without_improvement' =
                IF r.max_fitness > best_fitness_ever
                THEN 0
                ELSE generations_without_improvement + 1
    /\ ran' = Append(ran, "evaluate")
    /\ mpc' = "stop"
    /\ UNCHANGED generation_count
    /\ UNCHANGED << population_size, generation, old_knights, new_knights,
                    gpc, selection >>
    /\ UNCHANGED << kvars, bvars, ovars, cvars, hvars, uvars >>

\* maxFit, bestSolution = population.evaluate() and the tracking of the
\* best fitness and solution.
MainEvaluate ==
    /\ mpc = "evaluate"
    /\ LET r == evaluate(knights)
       IN  /\ knights' = r.knights
           /\ max_fitness' = r.max_fitness
           /\ best_knight' = r.best_knight
           /\ returned' = Append(returned, r.max_fitness)
           /\ IF r.max_fitness > best_fitness_ever
              THEN /\ best_fitness_ever' = r.max_fitness
                   /\ best_solution_ever' =
                        << [ generation |-> generation, place |-> r.best_knight ] >>
                   /\ kept' = None
                   /\ generations_without_improvement' = 0
              ELSE /\ generations_without_improvement' =
                        generations_without_improvement + 1
                   /\ UNCHANGED << best_fitness_ever, best_solution_ever, kept >>
    /\ ran' = Append(ran, "evaluate")
    /\ mpc' = "stop"
    /\ UNCHANGED generation_count
    /\ UNCHANGED << population_size, generation, old_knights, new_knights,
                    gpc, selection >>
    /\ UNCHANGED << kvars, bvars, ovars, cvars, hvars, uvars >>

\* A loop that breaks on a perfect solution only.
MainBreak_NoStagnation ==
    /\ mpc = "stop"
    /\ mpc' = IF max_fitness = 64 THEN "done" ELSE "create"
    /\ UNCHANGED << best_fitness_ever, best_solution_ever,
                    generations_without_improvement, generation_count, ran,
                    returned, kept >>
    /\ UNCHANGED << kvars, bvars, ovars, gvars, cvars, hvars, uvars >>

\* The two breaks: a perfect solution, or stagnation.
MainBreak ==
    /\ mpc = "stop"
    /\ mpc' = IF max_fitness = 64 THEN "done"
              ELSE IF generations_without_improvement >= max_stagnant_generations
                   THEN "done"
                   ELSE "create"
    /\ UNCHANGED << best_fitness_ever, best_solution_ever,
                    generations_without_improvement, generation_count, ran,
                    returned, kept >>
    /\ UNCHANGED << kvars, bvars, ovars, gvars, cvars, hvars, uvars >>

\* A create_new_generation that leaves the generation counter.
MainCreateNewGeneration_NoCount ==
    /\ mpc = "create"
    /\ knights' \in create_new_generation(knights, population_size)
    /\ generation_count' = generation_count + 1
    /\ kept' = IF best_solution_ever # None
                  /\ best_solution_ever[1].generation = generation
               THEN << knights[best_solution_ever[1].place] >>
               ELSE kept
    /\ ran' = << >>
    /\ mpc' = "while"
    /\ UNCHANGED << best_fitness_ever, best_solution_ever,
                    generations_without_improvement, returned >>
    /\ UNCHANGED << population_size, generation, old_knights, new_knights,
                    max_fitness, best_knight, gpc, selection >>
    /\ UNCHANGED << kvars, bvars, ovars, cvars, hvars, uvars >>

\* population.create_new_generation() and generation_count += 1
MainCreateNewGeneration ==
    /\ mpc = "create"
    /\ knights' \in create_new_generation(knights, population_size)
    /\ generation' = generation + 1
    /\ generation_count' = generation_count + 1
    /\ kept' = IF best_solution_ever # None
                  /\ best_solution_ever[1].generation = generation
               THEN << knights[best_solution_ever[1].place] >>
               ELSE kept
    /\ ran' = << >>
    /\ mpc' = "while"
    /\ UNCHANGED << best_fitness_ever, best_solution_ever,
                    generations_without_improvement, returned >>
    /\ UNCHANGED << population_size, old_knights, new_knights, max_fitness,
                    best_knight, gpc, selection >>
    /\ UNCHANGED << kvars, bvars, ovars, cvars, hvars, uvars >>

MainNext ==
    \/ MainWhile
    \/ MainCheckPopulation
    \/ MainEvaluate
    \/ MainBreak
    \/ MainCreateNewGeneration

\* main's loop on a population of knights.
SpecMain == MainInit /\ [][MainNext]_vars

\* A step of main: each one moves mpc, and one can be taken until the loop
\* is left.
MainAdvance ==
    /\ mpc # "done"
    /\ mpc' \in { "while", "check", "evaluate", "stop", "create", "done" }
    /\ mpc' # mpc

\* main runs on: no statement of the loop waits for anything.
FairSpecMain == SpecMain /\ WF_mpc(MainAdvance)

\* C21: create_new_generation, and so every tournament, is run only on a
\* generation on which check_population and then evaluate have been run, in
\* that order and nothing else: the fitness of every knight the tournaments
\* can compare is the length of its path, and the path is what decoding its
\* genes gives.
C21_SelectAfterEvaluate ==
    [][ generation' # generation =>
            /\ ran = << "check_population", "evaluate" >>
            /\ \A n \in 1..Len(knights) :
                /\ knights[n].fitness = Len(knights[n].path)
                /\ \E forward \in BOOLEAN :
                    check_moves(knights[n], forward).path = knights[n].path
      ]_vars

\* A second generation, decoded and evaluated, about to be replaced, whose
\* knights differ in fitness.
C21_Witness ==
    /\ mpc = "create"
    /\ generation = 2
    /\ \E n, m \in 1..Len(knights) : knights[n].fitness < knights[m].fitness

\* The greatest of the values of a sequence of naturals, 0 for none.
RECURSIVE BestOf(_)
BestOf(values) ==
    IF values = << >>
    THEN 0
    ELSE LET before == BestOf(SubSeq(values, 1, Len(values) - 1))
             last   == values[Len(values)]
         IN  IF last > before THEN last ELSE before

\* How many of the last values of a sequence, taken together, brought no
\* value above all the values before them.
RECURSIVE NoImprovementRun(_)
NoImprovementRun(values) ==
    IF values = << >>
    THEN 0
    ELSE LET before == SubSeq(values, 1, Len(values) - 1)
         IN  IF values[Len(values)] > BestOf(before)
             THEN 0
             ELSE 1 + NoImprovementRun(before)

\* C22: main's loop ends on every run; it makes at most max_generations
\* cycles of check_population and evaluate; once an evaluation has returned
\* 64, or the evaluations without improvement of the best fitness have
\* reached max_stagnant_generations in a row, the loop is left with the
\* population as it is, and otherwise goes on to create_new_generation;
\* after the loop nothing changes.  No statement of the loop fails: the
\* tournaments of create_new_generation can be sampled.
C22_MainTerminates ==
    /\ <>(mpc = "done")
    /\ [](mpc \in { "while", "check", "evaluate", "stop", "create", "done" })
    /\ [](mpc = "create" => ~SampleFails(knights, DefaultTournamentSize))
    /\ [](Len(returned) <= max_generations)
    /\ [][ mpc = "stop" =>
            IF \/ returned[Len(returned)] = 64
               \/ NoImprovementRun(returned) >= max_stagnant_generations
            THEN mpc' = "done" /\ UNCHANGED << knights, generation >>
            ELSE mpc' = "create"
       ]_vars
    /\ [][ mpc # "done" ]_vars

\* main has left its loop for stagnation: the second evaluation did not
\* improve on the first, and no third generation was created.
C22_Witness ==
    /\ mpc = "done"
    /\ Len(returned) = 2
    /\ returned[2] <= returned[1]
    /\ returned[2] < 64
    /\ generation = 2

\* C23: once evaluate has been called, best_fitness_ever is the greatest of
\* the values evaluate has returned and best_solution_ever is a knight whose
\* path has that length; best_fitness_ever never decreases; and while
\* best_solution_ever refers to the same knight, no step changes that
\* knight's path or genes.
C23_BestEverTracked ==
    /\ [](returned # << >> =>
            /\ best_fitness_ever = BestOf(returned)
            /\ best_solution_ever # None
            /\ Len(BestSolutionEver.path) = best_fitness_ever)
    /\ [][ best_fitness_ever' >= best_fitness_ever ]_vars
    /\ [][ (best_solution_ever # None /\ best_solution_ever' = best_solution_ever) =>
            /\ BestSolutionEver'.path = BestSolutionEver.path
            /\ BestSolutionEver'.genes = BestSolutionEver.genes
       ]_vars

\* The second generation has been decoded and evaluated and is worse than
\* the first: best_solution_ever is a knight of the replaced generation,
\* and no knight of the population has its genes.
C23_Witness ==
    /\ mpc = "stop"
    /\ Len(returned) = 2
    /\ returned[2] < returned[1]
    /\ kept # None
    /\ best_solution_ever[1].generation = 1
    /\ \A n \in 1..Len(knights) : knights[n].genes # kept[1].genes

\* C24: generation is 1 after construction; create_new_generation adds
\* exactly 1 to it and leaves a population of exactly population_size
\* knights, here an odd number, and every other step leaves generation as
\* it is; the population has population_size knights throughout.
C24_GenerationCounts ==
    /\ generation = 1
    /\ [](Len(knights) = population_size)
    /\ [][ IF mpc = "create"
           THEN /\ generation' = generation + 1
                /\ Len(knights') = population_size
                /\ population_size' = population_size
           ELSE generation' = generation
       ]_vars

\* create_new_generation has completed twice on a population of odd size.
C24_Witness ==
    /\ mpc = "while"
    /\ generation = 3
    /\ population_size % 2 = 1
    /\ Len(knights) = population_size

\* C25: when evaluate has run, every knight's fitness is the length of its
\* path, max_fitness is the greatest fitness of the population, and
\* best_knight is the first knight of the list that has it.
C25_EvaluateBest ==
    mpc = "stop" =>
        /\ \A n \in 1..Len(knights) : knights[n].fitness = Len(knights[n].path)
        /\ best_knight \in 1..Len(knights)
        /\ knights[best_knight].fitness = max_fitness
        /\ \A n \in 1..Len(knights) : knights[n].fitness <= max_fitness
        /\ \A n \in 1..(best_knight - 1) : knights[n].fitness < max_fitness

\* evaluate has run on a population whose first knight is below the
\* greatest fitness and whose second and third both have it.
C25_Witness ==
    /\ mpc = "stop"
    /\ Len(knights) = 3
    /\ knights[1].fitness < knights[2].fitness
    /\ knights[3].fitness = knights[2].fitness
    /\ best_knight = 2

\* ============================================================ objects
\* Chromosome objects and the list objects their genes attributes refer
\* to: a list is changed in place through any reference to it.
\* ------------------------------------------------------------ bounds
\* Largest number of Chromosome objects.
MaxChromosomes == 4

\* Largest number of calls that write into a list (mutation, check_moves).
MaxWrites == 1

\* Chromosome(genes), genes being the list at an address: self.genes is a
\* new list, the copy of that one.
Chromosome(ls, genes) ==
    [ lists |-> Append(ls, ls[genes]), genes |-> Len(ls) + 1 ]

\* A crossover that writes the first offspring into the list of self and
\* returns self for it.
crossover_InPlace(ls, self, partner, crossover_point) ==
    LET offspring == crossover(ls[self], ls[partner], crossover_point)
        written   == [ ls EXCEPT ![self] = offspring[1] ]
        two       == Chromosome(Append(written, offspring[2]), Len(written) + 1)
    IN  [ lists |-> two.lists, offspring |-> << self, two.genes >> ]

\* Chromosome.crossover on the lists at the addresses self and partner: the
\* two concatenations are new lists, and each Chromosome made of them copies
\* its list again.  The addresses the offspring hold.
crossover_lists(ls, self, partner, crossover_point) ==
    LET offspring == crossover(ls[self], ls[partner], crossover_point)
        genes1    == Append(ls, offspring[1])
        genes2    == Append(genes1, offspring[2])
        one       == Chromosome(genes2, Len(genes1))
        two       == Chromosome(one.lists, Len(genes2))
    IN  [ lists |-> two.lists, offspring |-> << one.genes, two.genes >> ]

\* The genes a Chromosome object has now.
GenesOf(c) == lists[chromosomes[c].genes]

\* The genomes the first two chromosomes hold.
HeapGenomes == GASeeds \cup { GenomeOf(<< >>, 8) }

HeapInit ==
    /\ committed = None /\ moves = 0
    /\ lists \in [ 1..2 -> HeapGenomes ]
    /\ chromosomes = << [ genes |-> 1 ], [ genes |-> 2 ] >>
    /\ calls = << >>
    /\ writes = 0
    /\ best_fitness_ever = 0 /\ best_solution_ever = None
    /\ generations_without_improvement = 0 /\ generation_count = 0
    /\ mpc = "off" /\ ran = << >> /\ returned = << >> /\ kept = None
    /\ query = << >> /\ answer = None
    /\ knight = NewKnight(<< >>) /\ cycle_forward = FALSE /\ i = 0
    /\ halted = FALSE /\ kpc = "off" /\ decodes = << >> /\ given = << >>
    /\ assignment = << >> /\ start = << >> /\ frames = << >> /\ result = "None"
    /\ bpc = "off" /\ solution = None /\ artifact = None /\ printed = << >>
    /\ self_genes = << >> /\ partner_genes = << >> /\ op = [ name |-> "off" ]
    /\ population_size = 0 /\ generation = 0 /\ knights = << >>
    /\ old_knights = << >> /\ new_knights = << >> /\ max_fitness = 0
    /\ best_knight = 0 /\ gpc = "off" /\ selection = None

\* parent1.chromosome.crossover(parent2.chromosome), the parents being any
\* two chromosomes or one chromosome twice.
HeapCrossover ==
    /\ Len(chromosomes) + 2 <= MaxChromosomes
    /\ \E self \in 1..Len(chromosomes), partner \in 1..Len(chromosomes) :
        \E crossover_point \in GACutPoints(GenesOf(self)) :
            LET r == crossover_lists(lists, chromosomes[self].genes,
                                     chromosomes[partner].genes, crossover_point)
            IN  /\ lists' = r.lists
                /\ chromosomes' = chromosomes \o
                        << [ genes |-> r.offspring[1] ],
                           [ genes |-> r.offspring[2] ] >>
                /\ calls' = Append(calls,
                        [ name |-> "crossover", self |-> self, partner |-> partner ])
    /\ UNCHANGED writes
    /\ UNCHANGED << kvars, bvars, ovars, gvars, cvars, mvars, uvars >>

\* chromosome.mutation(): the genes are written in place.
HeapMutation ==
    /\ writes < MaxWrites
    /\ \E self \in 1..Len(chromosomes), t \in GATapes :
        /\ lists' = [ lists EXCEPT ![chromosomes[self].genes] =
                        mutation(@, DefaultMutationRate, TapeOf(t)) ]
        /\ calls' = Append(calls, [ name |-> "mutation", self |-> self ])
    /\ writes' = writes + 1
    /\ UNCHANGED chromosomes
    /\ UNCHANGED << kvars, bvars, ovars, gvars, cvars, mvars, uvars >>

\* check_moves of the knight that holds a chromosome: the repaired genes are
\* written in place (self.chromosome.genes[i] = test_move).
HeapCheckMoves ==
    /\ writes < MaxWrites
    /\ \E self \in 1..Len(chromosomes), forward \in BOOLEAN :
        /\ lists' = [ lists EXCEPT ![chromosomes[self].genes] =
                        check_moves(NewKnight(@), forward).genes ]
        /\ calls' = Append(calls, [ name |-> "check_moves", self |-> self ])
    /\ writes' = writes + 1
    /\ UNCHANGED chromosomes
    /\ UNCHANGED << kvars, bvars, ovars, gvars, cvars, mvars, uvars >>

HeapNext ==
    \/ HeapCrossover
    \/ HeapMutation
    \/ HeapCheckMoves

\* Chromosomes bred, mutated and repaired, as objects.
SpecHeap == HeapInit /\ [][HeapNext]_vars

\* C26: no two chromosomes hold the same list; a crossover leaves the genes
\* of every chromosome there was, its parents included, as they are, and the
\* genes of its two offspring are what the crossover of the parents' genes
\* gives; a mutation or a repair changes the genes of no chromosome but the
\* one it is called on.
C26_NoAliasing ==
    /\ [](\A c, d \in 1..Len(chromosomes) :
            c # d => chromosomes[c].genes # chromosomes[d].genes)
    /\ [][ LET call == calls'[Len(calls')]
           IN  \A c \in 1..Len(chromosomes) :
                   (call.name = "crossover" \/ c # call.self) =>
                       GenesOf(c)' = GenesOf(c)
       ]_vars
    /\ [][ LET call == calls'[Len(calls')]
               n    == Len(chromosomes)
           IN  call.name = "crossover" =>
                   \E p \in CrossoverPoints(GenesOf(call.self)) :
                       << lists'[chromosomes'[n + 1].genes],
                          lists'[chromosomes'[n + 2].genes] >> =
                           crossover(GenesOf(call.self), GenesOf(call.partner), p)
       ]_vars

\* A chromosome was crossed with itself and then the knight of the first
\* offspring was decoded, which repaired its genes: they now differ from
\* the genes of the parent and of the other offspring.
C26_Witness ==
    /\ Len(calls) = 2
    /\ calls[1].name = "crossover" /\ calls[1].self = calls[1].partner
    /\ calls[2] = [ name |-> "check_moves", self |-> 3 ]
    /\ GenesOf(3) # GenesOf(calls[1].self)
    /\ GenesOf(3) # GenesOf(4)
    /\ GenesOf(4) = GenesOf(calls[1].self)

====
